---- MODULE Spec2Model ----
(***************************************************************************)
(* Volunteer / project matching back end.                                  *)
(*                                                                         *)
(* The request handlers of AIController (getMatches, recommendVolunteers)  *)
(* and of ProjectController (createProject) are modelled as processes that *)
(* take one step per awaited call.  services/aiService (the matcher and    *)
(* the scoring engine) is not among the sources; its operations are        *)
(* modelled from the specification.  Scores are fixed-point numbers in     *)
(* thousandths of a point.                                                 *)
(***************************************************************************)
EXTENDS Integers, Sequences, FiniteSets, TLC

(***************************************************************************)
(* Bounds                                                                  *)
(***************************************************************************)
MaxProjects == 3

(***************************************************************************)
(* Numbers.  A score x is held as the integer 1000 * x.                    *)
(***************************************************************************)
Milli == 1000

Pt(n) == n * Milli

\* Math.round(x * 100) : the division by 100 left out
RoundTo2Undivided(x) == ((x + 5) \div 10) * 1000

\* Math.round(x * 10) / 10 : nearest tenth
RoundTo1(x) == ((x + 50) \div 100) * 100

\* Math.round(x * 100) / 100 : nearest hundredth, halves rounded up
RoundTo2(x) == ((x + 5) \div 10) * 10

\* Math.round(match.score) : nearest integer, halves rounded up
RoundTo0(x) == ((x + 500) \div 1000) * 1000

Abs(x) == IF x < 0 THEN -x ELSE x

\* weight of each factor; the weights sum to 100
Weight == [skills |-> 30, location |-> 25, interests |-> 20,
           availability |-> 15, experience |-> 10]

SumFactors(f) == f.skills + f.location + f.interests + f.availability + f.experience

\* scoring engine result for one pair: aggregate = sum of the factors
MatchOf(f) == [score |-> SumFactors(f), factors |-> f]

(***************************************************************************)
(* AIController: the part of a response entry computed from the score      *)
(***************************************************************************)
\* getMatches, the callback of matches.map
ProcessMatchScore(match) ==
  [ matchScore   |-> RoundTo2(match.score),
    matchFactors |-> [ skills       |-> RoundTo2(match.factors.skills),
                       location     |-> RoundTo2(match.factors.location),
                       interests    |-> RoundTo2(match.factors.interests),
                       availability |-> RoundTo2(match.factors.availability),
                       experience   |-> RoundTo2(match.factors.experience) ] ]

\* recommendVolunteers, the callback of recommendations.map
ProcessRecommendationScore(rec) ==
  [ matchScore   |-> RoundTo2(rec.score),
    matchFactors |-> [ skills       |-> RoundTo2(rec.factors.skills),
                       location     |-> RoundTo2(rec.factors.location),
                       interests    |-> RoundTo2(rec.factors.interests),
                       availability |-> RoundTo2(rec.factors.availability),
                       experience   |-> RoundTo2(rec.factors.experience) ] ]

\* Array.prototype.join(", ")
RECURSIVE Join(_)
Join(reasons) ==
  IF Len(reasons) = 0 THEN ""
  ELSE IF Len(reasons) = 1 THEN reasons[1]
  ELSE reasons[1] \o ", " \o Join(Tail(reasons))

\* the reasons array with every threshold compared by >= instead of >
VolunteerReasonsInclusive(factors) ==
     (IF factors.skills >= Pt(15) THEN <<"Has required skills">> ELSE <<>>)
  \o (IF factors.location >= Pt(20) THEN <<"Located nearby">> ELSE <<>>)
  \o (IF factors.experience >= Pt(8) THEN <<"Experienced volunteer">> ELSE <<>>)
  \o (IF factors.availability >= Pt(12) THEN <<"Available for commitment">> ELSE <<>>)

\* the reasons array built by generateVolunteerRecommendationReason
VolunteerReasons(factors) ==
     (IF factors.skills > Pt(15) THEN <<"Has required skills">> ELSE <<>>)
  \o (IF factors.location > Pt(20) THEN <<"Located nearby">> ELSE <<>>)
  \o (IF factors.experience > Pt(8) THEN <<"Experienced volunteer">> ELSE <<>>)
  \o (IF factors.availability > Pt(12) THEN <<"Available for commitment">> ELSE <<>>)

generateVolunteerRecommendationReason(recommendation) ==
  LET reasons == VolunteerReasons(recommendation.factors)
  IN  IF Len(reasons) > 0 THEN Join(reasons) ELSE "Well-matched volunteer"

(***************************************************************************)
(* Users, roles and the query string                                       *)
(***************************************************************************)
UserIds == 1 .. 5

Role == <<"VOLUNTEER", "VOLUNTEER", "NGO", "GOVERNMENT", "ADMIN">>

Volunteers == {u \in UserIds : Role[u] = "VOLUNTEER"}

ProjectIds == 1 .. MaxProjects

\* String(undefined), what parseInt sees when the query has no limit
Undefined == <<"u", "n", "d", "e", "f", "i", "n", "e", "d">>

RawLimits == {Undefined, <<"0">>, <<"-", "1">>, <<"1">>, <<"3">>}

Digits == {"0", "1", "2", "3", "4", "5", "6", "7", "8", "9"}

DigitVal(c) ==
  CASE c = "0" -> 0 [] c = "1" -> 1 [] c = "2" -> 2 [] c = "3" -> 3 [] c = "4" -> 4
    [] c = "5" -> 5 [] c = "6" -> 6 [] c = "7" -> 7 [] c = "8" -> 8 [] c = "9" -> 9

\* value of the longest prefix of digits of s, acc being the value so far
RECURSIVE DigitPrefix(_, _, _)
DigitPrefix(s, acc, seen) ==
  IF Len(s) = 0 \/ Head(s) \notin Digits
  THEN [nan |-> ~seen, val |-> acc]
  ELSE DigitPrefix(Tail(s), 10 * acc + DigitVal(Head(s)), TRUE)

\* parseInt(string): optional sign, then the leading digits; NaN without a digit
ParseInt(s) ==
  IF Len(s) > 0 /\ Head(s) = "-"
  THEN LET r == DigitPrefix(Tail(s), 0, FALSE) IN [nan |-> r.nan, val |-> 0 - r.val]
  ELSE IF Len(s) > 0 /\ Head(s) = "+"
  THEN DigitPrefix(Tail(s), 0, FALSE)
  ELSE DigitPrefix(s, 0, FALSE)

DefaultLimit == 10

\* the limit of the query ignored: always the default
ParseLimitIgnored(raw) == DefaultLimit

\* parseInt(req.query.limit) || 10 : NaN and 0 are falsy
ParseLimit(raw) ==
  LET n == ParseInt(raw)
  IN  IF n.nan \/ n.val = 0 THEN DefaultLimit ELSE n.val

(***************************************************************************)
(* The store                                                               *)
(***************************************************************************)
VARIABLES
  projects,       \* project id -> [status, creatorId, createdAt, images]
  profiles,       \* volunteer user id -> "NONE" | "AVAILABLE" | "BUSY"
  factorsOf,      \* volunteer -> project -> factors given by the scoring engine
  aiThis,         \* whether the AI routes call the handlers with `this` bound
  notifications,  \* notifications delivered, oldest first
  clock,          \* creation time of the next record
  req,            \* request slot -> request in flight
  calc,           \* one response entry being computed from a scored pair
  users,          \* ids of the user accounts that exist
  applications,   \* application records [id, volunteerId, projectId, status]
  applied,        \* project id -> volunteersApplied of the project
  areq,           \* request slot -> account, project or application request
  route           \* one request being dispatched by the project router

store == <<projects, profiles, factorsOf>>

appVars == <<users, applications, applied, areq, route>>

vars == <<projects, profiles, factorsOf, aiThis, notifications, clock, req, calc,
          users, applications, applied, areq, route>>

NoProject == [status |-> "NONE", creatorId |-> 0, createdAt |-> 0, images |-> FALSE]

Min(a, b) == IF a < b THEN a ELSE b

\* factor vectors the scoring engine may give to a pair
FLow == [skills |-> 6667, location |-> 6667, interests |-> 0,
         availability |-> 0, experience |-> 0]

FMid == [skills |-> 15004, location |-> 20000, interests |-> 10000,
         availability |-> 12500, experience |-> 8001]

FHigh == [skills |-> Pt(Weight.skills), location |-> Pt(Weight.location),
          interests |-> Pt(Weight.interests), availability |-> Pt(Weight.availability),
          experience |-> Pt(Weight.experience)]

ScoreTables ==
  { [v \in Volunteers |-> [p \in ProjectIds |-> FMid]],
    [v \in Volunteers |-> [p \in ProjectIds |->
        IF (v + p) % 3 = 0 THEN FLow ELSE IF (v + p) % 3 = 1 THEN FHigh ELSE FMid]] }

(***************************************************************************)
(* aiService: the matcher                                                  *)
(***************************************************************************)
\* S ordered by descending score, ties by descending creation time
RECURSIVE SortDesc(_, _, _)
SortDesc(S, sc, cr) ==
  IF S = {} THEN <<>>
  ELSE LET best == CHOOSE a \in S : \A b \in S \ {a} :
                     sc[a] > sc[b] \/ (sc[a] = sc[b] /\ cr[a] > cr[b])
       IN  <<best>> \o SortDesc(S \ {best}, sc, cr)

Truncate(s, limit) == SubSeq(s, 1, Min(limit, Len(s)))

\* creation time of a volunteer profile
ProfileCreatedAt(v) == v

ActiveProjects(projs) == {p \in ProjectIds : projs[p].status = "ACTIVE"}

AvailableVolunteers(profs) == {v \in Volunteers : profs[v] = "AVAILABLE"}

MatcherOk(ms) == [error |-> 0, matches |-> ms]

MatcherError(code) == [error |-> code, matches |-> <<>>]

\* aiService.findMatches(volunteerId, limit)
findMatches(projs, profs, table, volunteerId, limit) ==
  IF limit <= 0 THEN MatcherError(400)
  ELSE IF volunteerId \notin Volunteers \/ profs[volunteerId] = "NONE" THEN MatcherError(404)
  ELSE LET cands  == ActiveProjects(projs)
           sc     == [p \in cands |-> SumFactors(table[volunteerId][p])]
           cr     == [p \in cands |-> projs[p].createdAt]
           sorted == SortDesc(cands, sc, cr)
       IN  MatcherOk([k \in 1 .. Min(limit, Len(sorted)) |->
                        [id |-> sorted[k], score |-> sc[sorted[k]],
                         factors |-> table[volunteerId][sorted[k]]]])

\* aiService.recommendVolunteers(projectId, limit)
recommendVolunteersForProject(projs, profs, table, projectId, limit) ==
  IF limit <= 0 THEN MatcherError(400)
  ELSE IF projectId \notin ProjectIds \/ projs[projectId].status = "NONE" THEN MatcherError(404)
  ELSE LET cands  == AvailableVolunteers(profs)
           sc     == [v \in cands |-> SumFactors(table[v][projectId])]
           cr     == [v \in cands |-> ProfileCreatedAt(v)]
           sorted == SortDesc(cands, sc, cr)
       IN  MatcherOk([k \in 1 .. Min(limit, Len(sorted)) |->
                        [id |-> sorted[k], score |-> sc[sorted[k]],
                         factors |-> table[sorted[k]][projectId]]])

(***************************************************************************)
(* Requests                                                                *)
(***************************************************************************)
ReqIds == {"r1", "r2"}

\* status given to an error that carries no statusCode (a TypeError)
InternalError == 500

IdleReq ==
  [ pc |-> "idle", handler |-> "none", user |-> 0, rawLimit |-> <<>>, projectId |-> 0,
    files |-> 0, limit |-> 0, anchor |-> "unread", anchorCreator |-> 0,
    invoked |-> FALSE, invokedLimit |-> 0, nCand |-> 0, matches |-> <<>>,
    sent |-> FALSE, resStatus |-> 0, resMatches |-> <<>>, resTotal |-> 0,
    err |-> 0, created |-> 0, notifyReached |-> FALSE ]

\* catch (error) { next(error) }
Fail(r, code) == [r EXCEPT !.pc = "done", !.err = code]

NoEntry ==
  [id |-> 0, matchScore |-> 0,
   matchFactors |-> [skills |-> 0, location |-> 0, interests |-> 0,
                     availability |-> 0, experience |-> 0],
   reason |-> ""]

IdleCalc == [pc |-> "idle", match |-> MatchOf(NoEntry.matchFactors), entry |-> NoEntry]

AReqIds == {"a1", "a2"}

NoSnapshot == [found |-> FALSE, volunteerId |-> 0, projectId |-> 0, status |-> "NONE",
               creatorId |-> 0]

IdleAReq ==
  [ pc |-> "idle", handler |-> "none", user |-> 0, projectId |-> 0, appId |-> 0,
    newStatus |-> "undefined", password |-> FALSE, snap |-> NoSnapshot,
    existing |-> FALSE, targets |-> <<>>, created |-> 0, counted |-> FALSE,
    changed |-> FALSE, resStatus |-> 0, err |-> 0 ]

IdleRoute == [pc |-> "idle", method |-> "GET", path |-> <<>>, handler |-> "none"]

\* no account, project or application request and no dispatch is modelled
AppsIdle ==
  /\ users = UserIds
  /\ applications = {}
  /\ applied = [p \in ProjectIds |-> 0]
  /\ areq = [i \in AReqIds |-> IdleAReq]
  /\ route = IdleRoute

\* a store left by earlier requests: two projects, each ACTIVE or CLOSED
InitialStatuses ==
  {st \in [ProjectIds -> {"NONE", "ACTIVE", "CLOSED"}] :
     \A p \in ProjectIds : st[p] = "NONE" <=> p > 2}

Init ==
  /\ \E st \in InitialStatuses :
       projects = [p \in ProjectIds |->
                     IF st[p] = "NONE" THEN NoProject
                     ELSE [status |-> st[p], creatorId |-> 3, createdAt |-> p,
                           images |-> FALSE]]
  /\ profiles \in {pr \in [Volunteers -> {"NONE", "AVAILABLE", "BUSY"}] :
                     pr[1] # "BUSY" /\ pr[2] # "NONE"}
  /\ factorsOf \in ScoreTables
  /\ aiThis \in BOOLEAN
  /\ notifications = <<>>
  /\ clock = 3
  /\ req = [i \in ReqIds |-> IdleReq]
  /\ calc = IdleCalc
  /\ AppsIdle

(***************************************************************************)
(* AIController.getMatches                                                 *)
(***************************************************************************)
\* the role check, the limit, and the lookup of the volunteer profile
GetMatchesLookup(i) ==
  /\ req[i].pc = "idle"
  /\ \E u \in UserIds, raw \in RawLimits :
       LET r == [req[i] EXCEPT !.handler = "getMatches", !.user = u, !.rawLimit = raw]
       IN  IF Role[u] # "VOLUNTEER"
           THEN req' = [req EXCEPT ![i] = Fail(r, 403)]
           ELSE req' = [req EXCEPT ![i] =
                          [r EXCEPT !.pc = "gm_profile",
                                    !.limit = ParseLimit(raw),
                                    !.anchor = IF profiles[u] = "NONE" THEN "none" ELSE "found"]]
  /\ UNCHANGED <<projects, profiles, factorsOf, aiThis, notifications, clock, calc, appVars>>

\* GetMatchesMatch that also marks the volunteer as busy once matched
GetMatchesMatchMarking(i) ==
  /\ req[i].pc = "gm_profile"
  /\ LET r == req[i]
         m == findMatches(projects, profiles, factorsOf, r.user, r.limit)
     IN  IF r.anchor = "none"
         THEN req' = [req EXCEPT ![i] = Fail(r, 404)] /\ UNCHANGED profiles
         ELSE LET called == [r EXCEPT !.invoked = TRUE, !.invokedLimit = r.limit,
                                      !.nCand = Cardinality(ActiveProjects(projects))]
              IN  IF m.error # 0
                  THEN req' = [req EXCEPT ![i] = Fail(called, m.error)] /\ UNCHANGED profiles
                  ELSE /\ req' = [req EXCEPT ![i] =
                                    [called EXCEPT !.pc = "gm_respond", !.matches = m.matches]]
                       /\ profiles' = [profiles EXCEPT ![r.user] = "BUSY"]
  /\ UNCHANGED <<projects, factorsOf, aiThis, notifications, clock, calc, appVars>>

\* GetMatchesMatch without the check of the profile that was looked up
GetMatchesMatchUnchecked(i) ==
  /\ req[i].pc = "gm_profile"
  /\ LET r == req[i]
         m == findMatches(projects, profiles, factorsOf, r.user, r.limit)
         called == [r EXCEPT !.invoked = TRUE, !.invokedLimit = r.limit,
                             !.nCand = Cardinality(ActiveProjects(projects))]
     IN  IF m.error # 0
         THEN req' = [req EXCEPT ![i] = Fail(called, m.error)]
         ELSE req' = [req EXCEPT ![i] =
                        [called EXCEPT !.pc = "gm_respond", !.matches = m.matches]]
  /\ UNCHANGED <<projects, profiles, factorsOf, aiThis, notifications, clock, calc, appVars>>

\* the profile check and the call of aiService.findMatches
GetMatchesMatch(i) ==
  /\ req[i].pc = "gm_profile"
  /\ LET r == req[i]
         m == findMatches(projects, profiles, factorsOf, r.user, r.limit)
     IN  IF r.anchor = "none"
         THEN req' = [req EXCEPT ![i] = Fail(r, 404)]
         ELSE LET called == [r EXCEPT !.invoked = TRUE, !.invokedLimit = r.limit,
                                      !.nCand = Cardinality(ActiveProjects(projects))]
              IN  IF m.error # 0
                  THEN req' = [req EXCEPT ![i] = Fail(called, m.error)]
                  ELSE req' = [req EXCEPT ![i] =
                                 [called EXCEPT !.pc = "gm_respond", !.matches = m.matches]]
  /\ UNCHANGED <<projects, profiles, factorsOf, aiThis, notifications, clock, calc, appVars>>

\* one entry of processedMatches; helpers.generateRecommendationReason is not
\* among the sources and the reason it returns is left empty
ProcessMatch(match) ==
  LET s == ProcessMatchScore(match)
  IN  [id |-> match.id, matchScore |-> s.matchScore, matchFactors |-> s.matchFactors,
       reason |-> ""]

\* GetMatchesRespond that answers 404 when there is no match
GetMatchesRespondEmptyIsError(i) ==
  /\ req[i].pc = "gm_respond"
  /\ LET r == req[i]
     IN  IF Len(r.matches) = 0
         THEN req' = [req EXCEPT ![i] = Fail(r, 404)]
         ELSE req' = [req EXCEPT ![i] =
                        [r EXCEPT !.pc = "done", !.sent = TRUE, !.resStatus = 200,
                                  !.resMatches = [k \in 1 .. Len(r.matches) |->
                                                    ProcessMatch(r.matches[k])],
                                  !.resTotal = Len(r.matches)]]
  /\ UNCHANGED <<projects, profiles, factorsOf, aiThis, notifications, clock, calc, appVars>>

\* matches.map and res.json
GetMatchesRespond(i) ==
  /\ req[i].pc = "gm_respond"
  /\ LET r == req[i]
     IN  req' = [req EXCEPT ![i] =
                   [r EXCEPT !.pc = "done", !.sent = TRUE, !.resStatus = 200,
                             !.resMatches = [k \in 1 .. Len(r.matches) |->
                                               ProcessMatch(r.matches[k])],
                             !.resTotal = Len(r.matches)]]
  /\ UNCHANGED <<projects, profiles, factorsOf, aiThis, notifications, clock, calc, appVars>>

(***************************************************************************)
(* AIController.recommendVolunteers                                        *)
(***************************************************************************)
OrgRoles == {"NGO", "GOVERNMENT", "ADMIN"}

\* the role check, the limit, and the lookup of the project
RecommendVolunteersLookup(i) ==
  /\ req[i].pc = "idle"
  /\ \E u \in UserIds, pid \in ProjectIds, raw \in RawLimits :
       LET r == [req[i] EXCEPT !.handler = "recommendVolunteers", !.user = u,
                               !.projectId = pid, !.rawLimit = raw]
       IN  IF Role[u] \notin OrgRoles
           THEN req' = [req EXCEPT ![i] = Fail(r, 403)]
           ELSE req' = [req EXCEPT ![i] =
                          [r EXCEPT !.pc = "rv_project",
                                    !.limit = ParseLimit(raw),
                                    !.anchor = IF projects[pid].status = "NONE"
                                               THEN "none" ELSE "found",
                                    !.anchorCreator = projects[pid].creatorId]]
  /\ UNCHANGED <<projects, profiles, factorsOf, aiThis, notifications, clock, calc, appVars>>

\* the project and ownership checks and the call of aiService.recommendVolunteers
RecommendVolunteersMatch(i) ==
  /\ req[i].pc = "rv_project"
  /\ LET r == req[i]
         m == recommendVolunteersForProject(projects, profiles, factorsOf,
                                            r.projectId, r.limit)
     IN  IF r.anchor = "none"
         THEN req' = [req EXCEPT ![i] = Fail(r, 404)]
         ELSE IF r.anchorCreator # r.user /\ Role[r.user] # "ADMIN"
         THEN req' = [req EXCEPT ![i] = Fail(r, 403)]
         ELSE LET called == [r EXCEPT !.invoked = TRUE, !.invokedLimit = r.limit,
                                      !.nCand = Cardinality(AvailableVolunteers(profiles))]
              IN  IF m.error # 0
                  THEN req' = [req EXCEPT ![i] = Fail(called, m.error)]
                  ELSE req' = [req EXCEPT ![i] =
                                 [called EXCEPT !.pc = "rv_respond", !.matches = m.matches]]
  /\ UNCHANGED <<projects, profiles, factorsOf, aiThis, notifications, clock, calc, appVars>>

\* one entry of processedRecommendations
ProcessRecommendation(rec) ==
  LET s == ProcessRecommendationScore(rec)
  IN  [id |-> rec.id, matchScore |-> s.matchScore, matchFactors |-> s.matchFactors,
       reason |-> generateVolunteerRecommendationReason(rec)]

\* recommendations.map and res.json; the callback reads a property of `this`
RecommendVolunteersRespond(i) ==
  /\ req[i].pc = "rv_respond"
  /\ LET r == req[i]
     IN  IF Len(r.matches) > 0 /\ ~aiThis
         THEN req' = [req EXCEPT ![i] = Fail(r, InternalError)]
         ELSE req' = [req EXCEPT ![i] =
                        [r EXCEPT !.pc = "done", !.sent = TRUE, !.resStatus = 200,
                                  !.resMatches = [k \in 1 .. Len(r.matches) |->
                                                    ProcessRecommendation(r.matches[k])],
                                  !.resTotal = Len(r.matches)]]
  /\ UNCHANGED <<projects, profiles, factorsOf, aiThis, notifications, clock, calc, appVars>>

(***************************************************************************)
(* ProjectController.createProject                                         *)
(***************************************************************************)
\* router.post('/', ..., projectController.createProject) passes the method
\* itself: express calls it with `this` undefined
ProjectRouterBindsThis == FALSE

NotifyPoolSize == 20

NotifyTopK == 5

\* the volunteers notifyRelevantVolunteers would notify, in order
TopMatches(projs, profs, table, projectId) ==
  LET m == recommendVolunteersForProject(projs, profs, table, projectId, NotifyPoolSize)
  IN  IF m.error # 0 THEN <<>> ELSE Truncate(m.matches, NotifyTopK)

NewProjectMatch(projectId, match) ==
  [userId |-> match.id, type |-> "NEW_PROJECT_MATCH", projectId |-> projectId,
   matchScore |-> RoundTo0(match.score)]

FreeProjectIds == {p \in ProjectIds : projects[p].status = "NONE"}

\* requireRole(['NGO', 'GOVERNMENT']) and prisma.project.create
CreateProjectCreate(i) ==
  /\ req[i].pc = "idle"
  /\ FreeProjectIds # {}
  /\ \E u \in {x \in UserIds : Role[x] \in {"NGO", "GOVERNMENT"}}, nfiles \in 0 .. 1 :
       LET pid == CHOOSE p \in FreeProjectIds : \A q \in FreeProjectIds : p <= q
       IN  /\ projects' = [projects EXCEPT ![pid] =
                             [status |-> "ACTIVE", creatorId |-> u, createdAt |-> clock,
                              images |-> FALSE]]
           /\ clock' = clock + 1
           /\ req' = [req EXCEPT ![i] =
                        [req[i] EXCEPT !.pc = "cp_created", !.handler = "createProject",
                                       !.user = u, !.files = nfiles, !.created = pid]]
  /\ UNCHANGED <<profiles, factorsOf, aiThis, notifications, calc, appVars>>

\* uploadImages and prisma.project.update, when the request carries files
CreateProjectUpload(i) ==
  /\ req[i].pc = "cp_created"
  /\ req[i].files > 0
  /\ \/ /\ projects' = [projects EXCEPT ![req[i].created].images = TRUE]
        /\ req' = [req EXCEPT ![i].pc = "cp_uploaded"]
     \/ /\ req' = [req EXCEPT ![i] = Fail(req[i], InternalError)]
        /\ UNCHANGED projects
  /\ UNCHANGED <<profiles, factorsOf, aiThis, notifications, clock, calc, appVars>>

\* await this.notifyRelevantVolunteers(project) and res.status(201).json
CreateProjectNotify(i) ==
  /\ \/ req[i].pc = "cp_created" /\ req[i].files = 0
     \/ req[i].pc = "cp_uploaded"
  /\ LET r == [req[i] EXCEPT !.notifyReached = TRUE]
     IN  IF ~ProjectRouterBindsThis
         THEN /\ req' = [req EXCEPT ![i] = Fail(r, InternalError)]
              /\ UNCHANGED notifications
         ELSE \E sentCount \in 0 .. Len(TopMatches(projects, profiles, factorsOf, r.created)) :
                /\ notifications' = notifications \o
                     [k \in 1 .. sentCount |->
                        NewProjectMatch(r.created,
                          TopMatches(projects, profiles, factorsOf, r.created)[k])]
                /\ req' = [req EXCEPT ![i] =
                             [r EXCEPT !.pc = "done", !.sent = TRUE, !.resStatus = 201]]
  /\ UNCHANGED <<projects, profiles, factorsOf, aiThis, clock, calc, appVars>>

Next ==
  \E i \in ReqIds :
    \/ GetMatchesLookup(i)
    \/ GetMatchesMatch(i)
    \/ GetMatchesRespond(i)
    \/ RecommendVolunteersLookup(i)
    \/ RecommendVolunteersMatch(i)
    \/ RecommendVolunteersRespond(i)
    \/ CreateProjectCreate(i)
    \/ CreateProjectUpload(i)
    \/ CreateProjectNotify(i)

Spec == Init /\ [][Next]_vars

(***************************************************************************)
(* The response entry of one scored pair, for every value of the factors   *)
(***************************************************************************)
\* values of each factor, between 0 and the weight of the factor
FactorInputs ==
  [ skills       : {0, 6667, 15000, 15004, 30000},
    location     : {0, 6667, 20000, 20005, 25000},
    interests    : {0, 3334, 20000},
    availability : {0, 12000, 12005, 15000},
    experience   : {0, 8000, 8001, 10000} ]

InitFactors ==
  /\ projects = [p \in ProjectIds |-> NoProject]
  /\ profiles = [v \in Volunteers |-> "NONE"]
  /\ factorsOf = [v \in Volunteers |-> [p \in ProjectIds |-> FMid]]
  /\ aiThis = TRUE
  /\ notifications = <<>>
  /\ clock = 1
  /\ req = [i \in ReqIds |-> IdleReq]
  /\ \E f \in FactorInputs : calc = [IdleCalc EXCEPT !.pc = "scored", !.match = MatchOf(f)]
  /\ AppsIdle

\* getMatches applies the callback of matches.map to the scored pair
ApplyProcessMatch ==
  /\ calc.pc = "scored"
  /\ calc' = [calc EXCEPT !.pc = "match",
                          !.entry = ProcessMatch([id |-> 1, score |-> calc.match.score,
                                                  factors |-> calc.match.factors])]
  /\ UNCHANGED <<projects, profiles, factorsOf, aiThis, notifications, clock, req, appVars>>

\* recommendVolunteers applies the callback of recommendations.map
ApplyProcessRecommendation ==
  /\ calc.pc = "scored"
  /\ calc' = [calc EXCEPT !.pc = "recommendation",
                          !.entry = ProcessRecommendation(
                                      [id |-> 1, score |-> calc.match.score,
                                       factors |-> calc.match.factors])]
  /\ UNCHANGED <<projects, profiles, factorsOf, aiThis, notifications, clock, req, appVars>>

NextFactors == ApplyProcessMatch \/ ApplyProcessRecommendation

SpecFactors == InitFactors /\ [][NextFactors]_vars

(***************************************************************************)
(* Properties                                                              *)
(***************************************************************************)
MatchingHandlers == {"getMatches", "recommendVolunteers"}

Done(i) == req[i].pc = "done"

\* C1: once createProject has created the project and reached the notification
\* of the matching volunteers, the request ends with 201 and without next(error).
CreateProjectNotifyNeverFails ==
  \A i \in ReqIds :
    (req[i].handler = "createProject" /\ Done(i) /\ req[i].notifyReached)
      => (req[i].resStatus = 201 /\ req[i].err = 0)

\* the limit of the query is a number and is not positive
NonPositiveLimit(raw) == ~ParseInt(raw).nan /\ ParseInt(raw).val <= 0

\* C2: a matching request whose limit is 0 or negative, and that is not refused
\* for its role or its anchor, ends with 400, and the matcher is never called
\* with a limit that is not positive.
NonPositiveLimitRejected ==
  \A i \in ReqIds :
    (req[i].handler \in MatchingHandlers /\ NonPositiveLimit(req[i].rawLimit))
      => /\ req[i].invoked => req[i].invokedLimit > 0
         /\ Done(i) => req[i].err \in {400, 403, 404}

\* C3: a matching request whose anchor lookup found nothing ends with 404; the
\* matcher is not called and nothing is sent in a response.
MissingAnchorNotFound ==
  \A i \in ReqIds :
    (req[i].handler \in MatchingHandlers /\ req[i].anchor = "none")
      => /\ ~req[i].invoked
         /\ ~req[i].sent /\ req[i].resStatus = 0 /\ req[i].resMatches = <<>>
         /\ Done(i) => req[i].err = 404

MissingAnchorNotFoundWitness ==
  \E i, j \in ReqIds :
    /\ req[i].handler = "getMatches" /\ req[i].anchor = "none" /\ Done(i)
    /\ req[j].handler = "recommendVolunteers" /\ req[j].anchor = "none" /\ Done(j)

\* the query and the anchor of two requests are the same
SameRequest(i, j) ==
  /\ req[i].handler = req[j].handler
  /\ req[i].user = req[j].user
  /\ req[i].projectId = req[j].projectId
  /\ req[i].rawLimit = req[j].rawLimit

SameAnswer(i, j) ==
  /\ req[i].err = req[j].err
  /\ req[i].resStatus = req[j].resStatus
  /\ req[i].resMatches = req[j].resMatches
  /\ req[i].resTotal = req[j].resTotal

\* two finished matching requests with the same anchor and limit got the same answer
SameRequestSameAnswer ==
  \A i, j \in ReqIds :
    (Done(i) /\ Done(j) /\ req[i].handler \in MatchingHandlers /\ SameRequest(i, j))
      => SameAnswer(i, j)

\* a step of a matching request leaves every stored record as it was
MatchingStepKeepsStore ==
  \A i \in ReqIds :
    (req'[i] # req[i] /\ req'[i].handler \in MatchingHandlers)
      => (projects' = projects /\ profiles' = profiles /\ factorsOf' = factorsOf
          /\ notifications' = notifications)

PositiveLimit(raw) == ~ParseInt(raw).nan /\ ParseInt(raw).val > 0

\* C5: a getMatches request with limit N answers with min(N, number of ACTIVE
\* projects) matches, so never more than N and all of them when fewer than N
\* qualify, and totalMatches is the number of matches in the response.
GetMatchesRespectsLimit ==
  \A i \in ReqIds :
    (req[i].handler = "getMatches" /\ Done(i) /\ req[i].err = 0
       /\ PositiveLimit(req[i].rawLimit))
      => /\ Len(req[i].resMatches) <= ParseInt(req[i].rawLimit).val
         /\ Len(req[i].resMatches) = Min(ParseInt(req[i].rawLimit).val, req[i].nCand)
         /\ req[i].resTotal = Len(req[i].resMatches)

GetMatchesRespectsLimitWitness ==
  \E i, j \in ReqIds :
    /\ req[i].handler = "getMatches" /\ Done(i) /\ req[i].err = 0
    /\ ParseInt(req[i].rawLimit).val = 1 /\ req[i].nCand > 1
    /\ req[j].handler = "getMatches" /\ Done(j) /\ req[j].err = 0
    /\ ParseInt(req[j].rawLimit).val = 3 /\ req[j].nCand = 2
    /\ Len(req[j].resMatches) = 2

\* creation time of the entity a match is about
CreatedAt(handler, id) ==
  IF handler = "getMatches" THEN projects[id].createdAt ELSE ProfileCreatedAt(id)

\* the matches are in descending order of score, ties in descending creation time
SortedMatches(handler, ms) ==
  \A k \in 1 .. Len(ms) - 1 :
    \/ ms[k].score > ms[k + 1].score
    \/ /\ ms[k].score = ms[k + 1].score
       /\ CreatedAt(handler, ms[k].id) > CreatedAt(handler, ms[k + 1].id)

\* the users notified about a project, oldest notification first
NotifiedAbout(projectId) ==
  LET idx == {k \in 1 .. Len(notifications) : notifications[k].projectId = projectId}
      ord == SortDesc(idx, [k \in idx |-> 0 - k], [k \in idx |-> 0])
  IN  [k \in 1 .. Len(ord) |-> notifications[ord[k]].userId]

\* C6: the matches of a response are in descending order of score, ties by
\* descending creation time, in the order the matcher returned them, and the
\* volunteers notified when a project is created are the first five of the
\* volunteers recommended for it, in that order.
SortedMatchesAndTopFiveNotified ==
  \A i \in ReqIds :
    /\ (req[i].handler \in MatchingHandlers /\ Done(i) /\ req[i].err = 0)
         => /\ SortedMatches(req[i].handler, req[i].matches)
            /\ Len(req[i].resMatches) = Len(req[i].matches)
            /\ \A k \in 1 .. Len(req[i].matches) :
                 req[i].resMatches[k].id = req[i].matches[k].id
    /\ (req[i].handler = "createProject" /\ Done(i) /\ req[i].notifyReached)
         => LET top == TopMatches(projects, profiles, factorsOf, req[i].created)
            IN  NotifiedAbout(req[i].created) = [k \in 1 .. Len(top) |-> top[k].id]

\* C10: a matching request of an authorised requester for an existing anchor,
\* made when no candidate passes the filter, ends with 200, an empty sequence
\* of matches and a total of 0, and without an error.
NoCandidatesIsEmptySuccess ==
  \A i \in ReqIds :
    (/\ req[i].handler \in MatchingHandlers /\ Done(i)
     /\ req[i].anchor = "found" /\ req[i].limit > 0 /\ req[i].nCand = 0
     /\ (req[i].handler = "recommendVolunteers"
           => (req[i].anchorCreator = req[i].user \/ Role[req[i].user] = "ADMIN")))
      => /\ req[i].invoked
         /\ req[i].err = 0 /\ req[i].resStatus = 200 /\ req[i].sent
         /\ req[i].resMatches = <<>> /\ req[i].resTotal = 0

NoCandidatesIsEmptySuccessWitness ==
  \E i, j \in ReqIds :
    /\ req[i].handler = "getMatches" /\ Done(i) /\ req[i].invoked
    /\ req[i].nCand = 0 /\ req[i].resStatus = 200
    /\ req[j].handler = "recommendVolunteers" /\ Done(j) /\ req[j].invoked
    /\ req[j].nCand = 0 /\ req[j].resStatus = 200

Computed == calc.pc \in {"match", "recommendation"}

NoFactorNegative(f) ==
  /\ f.skills >= 0 /\ f.location >= 0 /\ f.interests >= 0
  /\ f.availability >= 0 /\ f.experience >= 0

\* every factor has at most two decimals
TwoDecimalFactors(f) ==
  /\ f.skills % 10 = 0 /\ f.location % 10 = 0 /\ f.interests % 10 = 0
  /\ f.availability % 10 = 0 /\ f.experience % 10 = 0

\* C7 as stated: in a response entry the aggregate is the sum of the five
\* factors, no factor is negative, and the aggregate lies in [0, 100].
ResponseScoreIsSumOfFactors ==
  Computed =>
    /\ calc.entry.matchScore = SumFactors(calc.entry.matchFactors)
    /\ NoFactorNegative(calc.entry.matchFactors)
    /\ calc.entry.matchScore >= 0 /\ calc.entry.matchScore <= Pt(100)

\* C7: in a response entry no factor is negative, the aggregate lies in
\* [0, 100], and the aggregate differs from the sum of the five factors by at
\* most 0.03, being equal to it when no factor has more than two decimals.
ResponseScoreNearSumOfFactors ==
  Computed =>
    /\ NoFactorNegative(calc.entry.matchFactors)
    /\ calc.entry.matchScore >= 0 /\ calc.entry.matchScore <= Pt(100)
    /\ Abs(calc.entry.matchScore - SumFactors(calc.entry.matchFactors)) <= 30
    /\ TwoDecimalFactors(calc.match.factors)
         => calc.entry.matchScore = SumFactors(calc.entry.matchFactors)

ResponseScoreNearSumOfFactorsWitness ==
  /\ calc.pc = "match"
  /\ calc.entry.matchScore # SumFactors(calc.entry.matchFactors)
  /\ calc.match.score > Pt(50)

\* out is x rounded to d decimals, unit being 10^(3-d) thousandths
RoundedTo(x, out, unit) == out % unit = 0 /\ 2 * Abs(out - x) <= unit

FactorsRoundedTo2(in, out) ==
  /\ RoundedTo(in.skills, out.skills, 10)
  /\ RoundedTo(in.location, out.location, 10)
  /\ RoundedTo(in.interests, out.interests, 10)
  /\ RoundedTo(in.availability, out.availability, 10)
  /\ RoundedTo(in.experience, out.experience, 10)

\* C9 as stated: the aggregate of a response entry is rounded to one decimal
\* and each factor to two decimals.
ScoreOneDecimalFactorsTwo ==
  Computed =>
    /\ RoundedTo(calc.match.score, calc.entry.matchScore, 100)
    /\ FactorsRoundedTo2(calc.match.factors, calc.entry.matchFactors)

\* C9: the aggregate of a response entry and each of its five factors are
\* rounded to two decimals.
ScoreAndFactorsTwoDecimals ==
  Computed =>
    /\ RoundedTo(calc.match.score, calc.entry.matchScore, 10)
    /\ FactorsRoundedTo2(calc.match.factors, calc.entry.matchFactors)

ScoreAndFactorsTwoDecimalsWitness ==
  /\ calc.pc = "recommendation"
  /\ calc.match.score % 10 # 0
  /\ calc.entry.matchScore % 100 # 0
  /\ calc.match.factors.skills % 10 # 0

\* the phrase of a factor, after a separator when an earlier phrase was emitted
Phrase(emit, earlier, text) ==
  IF emit THEN (IF earlier THEN ", " ELSE "") \o text ELSE ""

\* C8 as stated, for a pair whose interests factor is 0: one phrase for each
\* exceeded threshold, in the order skills, location, availability, experience,
\* and the generic phrase exactly when no threshold is exceeded.
ReasonInFactorOrder ==
  (calc.pc = "recommendation" /\ calc.match.factors.interests = 0) =>
    LET f  == calc.match.factors
        sk == f.skills > Pt(15)
        lo == f.location > Pt(20)
        av == f.availability > Pt(12)
        ex == f.experience > Pt(8)
    IN  calc.entry.reason =
          IF ~(sk \/ lo \/ av \/ ex) THEN "Well-matched volunteer"
          ELSE Phrase(sk, FALSE, "Has required skills")
               \o Phrase(lo, sk, "Located nearby")
               \o Phrase(av, sk \/ lo, "Available for commitment")
               \o Phrase(ex, sk \/ lo \/ av, "Experienced volunteer")

\* C8: the reason of a recommendation is a function of the factors: one phrase
\* for each of skills > 15, location > 20, experience > 8, availability > 12
\* that holds, in that order and joined by ", "; the interests factor has no
\* phrase; the generic phrase exactly when none of the four holds.
ReasonInCodeOrder ==
  calc.pc = "recommendation" =>
    LET f  == calc.match.factors
        sk == f.skills > Pt(15)
        lo == f.location > Pt(20)
        ex == f.experience > Pt(8)
        av == f.availability > Pt(12)
    IN  /\ calc.entry.reason =
             IF ~(sk \/ lo \/ ex \/ av) THEN "Well-matched volunteer"
             ELSE Phrase(sk, FALSE, "Has required skills")
                  \o Phrase(lo, sk, "Located nearby")
                  \o Phrase(ex, sk \/ lo, "Experienced volunteer")
                  \o Phrase(av, sk \/ lo \/ ex, "Available for commitment")
        /\ (calc.entry.reason = "Well-matched volunteer") <=> ~(sk \/ lo \/ ex \/ av)

ReasonInCodeOrderWitness ==
  /\ calc.pc = "recommendation"
  /\ calc.match.factors.experience > Pt(8)
  /\ calc.match.factors.availability > Pt(12)
  /\ calc.match.factors.skills = Pt(15)
  /\ calc.match.factors.interests = Pt(20)
  /\ calc.entry.reason = "Experienced volunteer, Available for commitment"

(***************************************************************************)
(* The project router                                                      *)
(***************************************************************************)
\* the routes of the router, in the order of their registration
Routes ==
  << [method |-> "GET",    pattern |-> <<>>,                          handler |-> "getAllProjects"],
     [method |-> "GET",    pattern |-> <<"my">>,                      handler |-> "getMyProjects"],
     [method |-> "GET",    pattern |-> <<"applications", "my">>,      handler |-> "getMyApplications"],
     [method |-> "GET",    pattern |-> <<":id">>,                     handler |-> "getProject"],
     [method |-> "POST",   pattern |-> <<>>,                          handler |-> "createProject"],
     [method |-> "PUT",    pattern |-> <<":id">>,                     handler |-> "updateProject"],
     [method |-> "DELETE", pattern |-> <<":id">>,                     handler |-> "deleteProject"],
     [method |-> "POST",   pattern |-> <<":id", "apply">>,            handler |-> "applyForProject"],
     [method |-> "GET",    pattern |-> <<":id", "applications">>,     handler |-> "getProjectApplications"],
     [method |-> "PUT",    pattern |-> <<"applications", ":applicationId", "respond">>,
      handler |-> "respondToApplication"],
     [method |-> "DELETE", pattern |-> <<"applications", ":applicationId", "withdrawal">>,
      handler |-> "withdrawApplication"] >>

\* a segment of a pattern that names a parameter matches any segment
IsParam(seg) == seg \in {":id", ":applicationId"}

MatchesPattern(pattern, path) ==
  /\ Len(pattern) = Len(path)
  /\ \A k \in 1 .. Len(pattern) : IsParam(pattern[k]) \/ pattern[k] = path[k]

\* the handler of the first route that matches, "none" when the router has none
Dispatch(method, path) ==
  LET hits == {k \in 1 .. Len(Routes) :
                 Routes[k].method = method /\ MatchesPattern(Routes[k].pattern, path)}
  IN  IF hits = {} THEN "none"
      ELSE Routes[CHOOSE k \in hits : \A j \in hits : k <= j].handler

Methods == {"GET", "POST", "PUT", "DELETE"}

Segments == {"applications", "my", "7", "apply", "respond", "withdraw", "withdrawal"}

MaxSegments == 3

Paths == UNION {[1 .. n -> Segments] : n \in 0 .. MaxSegments}

MatchingIdle ==
  /\ projects = [p \in ProjectIds |-> NoProject]
  /\ profiles = [v \in Volunteers |-> "NONE"]
  /\ factorsOf = [v \in Volunteers |-> [p \in ProjectIds |-> FMid]]
  /\ aiThis = TRUE
  /\ notifications = <<>>
  /\ clock = 1
  /\ req = [i \in ReqIds |-> IdleReq]
  /\ calc = IdleCalc

InitRoutes ==
  /\ MatchingIdle
  /\ users = UserIds
  /\ applications = {}
  /\ applied = [p \in ProjectIds |-> 0]
  /\ areq = [i \in AReqIds |-> IdleAReq]
  /\ \E m \in Methods, path \in Paths :
       route = [pc |-> "received", method |-> m, path |-> path, handler |-> "none"]

\* the router gives the request to the first route that matches
DispatchRequest ==
  /\ route.pc = "received"
  /\ route' = [route EXCEPT !.pc = "dispatched",
                            !.handler = Dispatch(route.method, route.path)]
  /\ UNCHANGED <<projects, profiles, factorsOf, aiThis, notifications, clock, req, calc,
                 users, applications, applied, areq>>

NextRoutes == DispatchRequest

SpecRoutes == InitRoutes /\ [][NextRoutes]_vars

(***************************************************************************)
(* The store of users, projects and applications                           *)
(***************************************************************************)
matchVars == <<profiles, factorsOf, aiThis, req, calc>>

Application(id, v, p, st) == [id |-> id, volunteerId |-> v, projectId |-> p, status |-> st]

Notification(u, type, p) == [userId |-> u, type |-> type, projectId |-> p, matchScore |-> 0]

ValidationError == 400

NotFound == 404

Forbidden == 403

AFail(i, code) == [areq EXCEPT ![i] = [areq[i] EXCEPT !.pc = "done", !.err = code]]

\* the row of a project that was deleted: its id is never given to another project
DeletedProject == [NoProject EXCEPT !.status = "DELETED"]

ProjectExists(p) == projects[p].status \notin {"NONE", "DELETED"}

\* prisma.application.findUnique({ where: { volunteerId_projectId } })
ExistingApplication(apps, v, p) == {a \in apps : a.volunteerId = v /\ a.projectId = p}

\* prisma.application.findUnique({ where: { id } })
ApplicationById(apps, id) == {a \in apps : a.id = id}

UniqueViolationNever(apps, v, p) == FALSE

\* the unique index behind volunteerId_projectId
UniqueViolation(apps, v, p) == \E a \in apps : a.volunteerId = v /\ a.projectId = p

\* ON DELETE RESTRICT of the rows that reference a user
UserReferencedNever(apps, u) == FALSE

UserReferenced(apps, u) == \E a \in apps : a.volunteerId = u

\* ON DELETE RESTRICT of the rows that reference a project
ProjectReferenced(apps, p) == \E a \in apps : a.projectId = p

\* the volunteers of the applications of a project, by application id
RECURSIVE ApplicantsOf(_, _)
ApplicantsOf(apps, p) ==
  LET mine == {a \in apps : a.projectId = p}
  IN  IF mine = {} THEN <<>>
      ELSE LET first == CHOOSE a \in mine : \A b \in mine : a.id <= b.id
           IN  <<first.volunteerId>> \o ApplicantsOf(apps \ {first}, p)

Snapshot(p) ==
  [found |-> ProjectExists(p), volunteerId |-> 0, projectId |-> p,
   status |-> projects[p].status, creatorId |-> projects[p].creatorId]

SnapshotOfApplication(a) ==
  [found |-> TRUE, volunteerId |-> a.volunteerId, projectId |-> a.projectId,
   status |-> a.status, creatorId |-> projects[a.projectId].creatorId]

\* the requesters of the project operations: a volunteer, the creators of the
\* two projects, and an ADMIN
ProjectRequesters == {1, 3, 4, 5}

\* the requesters of the application operations: two volunteers and an NGO
Applicants == {1, 2, 3}

InitApps ==
  /\ \E s1 \in {"ACTIVE", "CLOSED"} :
       projects = [p \in ProjectIds |->
                     IF p = 1 THEN [status |-> s1, creatorId |-> 3, createdAt |-> 1,
                                    images |-> FALSE]
                     ELSE IF p = 2
                          THEN [status |-> "ACTIVE", creatorId |-> 4, createdAt |-> 2,
                                images |-> FALSE]
                          ELSE NoProject]
  /\ profiles = [v \in Volunteers |-> "AVAILABLE"]
  /\ factorsOf = [v \in Volunteers |-> [p \in ProjectIds |-> FMid]]
  /\ aiThis = TRUE
  /\ notifications = <<>>
  /\ clock = 3
  /\ req = [i \in ReqIds |-> IdleReq]
  /\ calc = IdleCalc
  /\ \E st \in {"NONE", "PENDING", "ACCEPTED"} :
       /\ applications = IF st = "NONE" THEN {} ELSE {Application(1, 1, 1, st)}
       /\ applied = [p \in ProjectIds |-> IF p = 1 /\ st # "NONE" THEN 1 ELSE 0]
  /\ users = UserIds
  /\ areq = [i \in AReqIds |-> IdleAReq]
  /\ route = IdleRoute

(***************************************************************************)
(* ProjectController.applyForProject                                       *)
(***************************************************************************)
\* the role check and the lookup of the project
ApplyLookup(i) ==
  /\ areq[i].pc = "idle"
  /\ \E u \in Applicants, p \in ProjectIds :
       LET r == [areq[i] EXCEPT !.handler = "applyForProject", !.user = u,
                                !.projectId = p, !.snap = Snapshot(p)]
       IN  areq' = [areq EXCEPT ![i] =
             IF Role[u] # "VOLUNTEER" THEN [r EXCEPT !.pc = "done", !.err = Forbidden]
             ELSE IF ~ProjectExists(p) THEN [r EXCEPT !.pc = "done", !.err = NotFound]
             ELSE IF projects[p].status # "ACTIVE"
                  THEN [r EXCEPT !.pc = "done", !.err = ValidationError]
                  ELSE [r EXCEPT !.pc = "apply_check"]]
  /\ UNCHANGED <<projects, notifications, clock, users, applications, applied, route,
                 matchVars>>

\* the lookup of an application of the volunteer for the project
ApplyCheck(i) ==
  /\ areq[i].pc = "apply_check"
  /\ areq' = [areq EXCEPT ![i] =
       IF ExistingApplication(applications, areq[i].user, areq[i].projectId) # {}
       THEN [areq[i] EXCEPT !.pc = "done", !.err = ValidationError, !.existing = TRUE]
       ELSE [areq[i] EXCEPT !.pc = "apply_create"]]
  /\ UNCHANGED <<projects, notifications, clock, users, applications, applied, route,
                 matchVars>>

\* prisma.application.create
ApplyCreate(i) ==
  /\ areq[i].pc = "apply_create"
  /\ LET u == areq[i].user
         p == areq[i].projectId
     IN  IF \/ UniqueViolation(applications, u, p)
            \/ u \notin users
            \/ ~ProjectExists(p)
         THEN /\ areq' = AFail(i, InternalError)
              /\ UNCHANGED <<applications, clock>>
         ELSE /\ applications' = applications \cup {Application(clock, u, p, "PENDING")}
              /\ clock' = clock + 1
              /\ areq' = [areq EXCEPT ![i] =
                            [areq[i] EXCEPT !.pc = "apply_count", !.created = clock]]
  /\ UNCHANGED <<projects, notifications, users, applied, route, matchVars>>

\* prisma.project.update({ volunteersApplied: { increment: 1 } })
ApplyCount(i) ==
  /\ areq[i].pc = "apply_count"
  /\ \E ok \in BOOLEAN :
       IF ok /\ ProjectExists(areq[i].projectId)
       THEN /\ applied' = [applied EXCEPT ![areq[i].projectId] = @ + 1]
            /\ areq' = [areq EXCEPT ![i] =
                          [areq[i] EXCEPT !.pc = "apply_notify", !.counted = TRUE]]
       ELSE /\ areq' = AFail(i, InternalError)
            /\ UNCHANGED applied
  /\ UNCHANGED <<projects, notifications, clock, users, applications, route, matchVars>>

\* sendNotification to the creator of the project and res.status(201).json
ApplyNotify(i) ==
  /\ areq[i].pc = "apply_notify"
  /\ \/ /\ notifications' = Append(notifications,
             Notification(areq[i].snap.creatorId, "NEW_APPLICATION", areq[i].projectId))
        /\ areq' = [areq EXCEPT ![i] = [areq[i] EXCEPT !.pc = "done", !.resStatus = 201]]
     \/ /\ areq' = AFail(i, InternalError)
        /\ UNCHANGED notifications
  /\ UNCHANGED <<projects, clock, users, applications, applied, route, matchVars>>

(***************************************************************************)
(* ProjectController.withdrawApplication                                   *)
(***************************************************************************)
\* the application ids a request can name: those of the store, and one of no record
KnownApplicationIds == {a.id : a \in applications} \cup {0}

IsOwner(volunteerId, u) == volunteerId = u

\* the role check, the lookup of the application, the owner and the status checks
WithdrawLookup(i) ==
  /\ areq[i].pc = "idle"
  /\ \E u \in Applicants, id \in KnownApplicationIds :
       LET found == ApplicationById(applications, id)
           a == CHOOSE x \in found : TRUE
           r == [areq[i] EXCEPT !.handler = "withdrawApplication", !.user = u,
                                !.appId = id]
       IN  areq' = [areq EXCEPT ![i] =
             IF Role[u] # "VOLUNTEER" THEN [r EXCEPT !.pc = "done", !.err = Forbidden]
             ELSE IF found = {} THEN [r EXCEPT !.pc = "done", !.err = NotFound]
             ELSE IF ~IsOwner(a.volunteerId, u)
                  THEN [r EXCEPT !.pc = "done", !.err = Forbidden,
                                 !.snap = SnapshotOfApplication(a)]
             ELSE IF a.status = "ACCEPTED"
                  THEN [r EXCEPT !.pc = "done", !.err = ValidationError,
                                 !.snap = SnapshotOfApplication(a)]
                  ELSE [r EXCEPT !.pc = "withdraw_delete", !.projectId = a.projectId,
                                 !.snap = SnapshotOfApplication(a)]]
  /\ UNCHANGED <<projects, notifications, clock, users, applications, applied, route,
                 matchVars>>

\* prisma.application.delete
WithdrawDelete(i) ==
  /\ areq[i].pc = "withdraw_delete"
  /\ LET found == ApplicationById(applications, areq[i].appId)
     IN  IF found = {}
         THEN /\ areq' = AFail(i, InternalError)
              /\ UNCHANGED applications
         ELSE /\ applications' = applications \ found
              /\ areq' = [areq EXCEPT ![i] =
                            [areq[i] EXCEPT !.pc = "withdraw_count", !.changed = TRUE]]
  /\ UNCHANGED <<projects, notifications, clock, users, applied, route, matchVars>>

\* prisma.project.update({ volunteersApplied: { decrement: 1 } })
WithdrawCount(i) ==
  /\ areq[i].pc = "withdraw_count"
  /\ \E ok \in BOOLEAN :
       IF ok /\ ProjectExists(areq[i].projectId)
       THEN /\ applied' = [applied EXCEPT ![areq[i].projectId] = @ - 1]
            /\ areq' = [areq EXCEPT ![i] =
                          [areq[i] EXCEPT !.pc = "withdraw_notify", !.counted = TRUE]]
       ELSE /\ areq' = AFail(i, InternalError)
            /\ UNCHANGED applied
  /\ UNCHANGED <<projects, notifications, clock, users, applications, route, matchVars>>

\* sendNotification to the creator of the project and res.json
WithdrawNotify(i) ==
  /\ areq[i].pc = "withdraw_notify"
  /\ \/ /\ notifications' = Append(notifications,
             Notification(areq[i].snap.creatorId, "APPLICATION_WITHDRAWN",
                          areq[i].projectId))
        /\ areq' = [areq EXCEPT ![i] = [areq[i] EXCEPT !.pc = "done", !.resStatus = 200]]
     \/ /\ areq' = AFail(i, InternalError)
        /\ UNCHANGED notifications
  /\ UNCHANGED <<projects, clock, users, applications, applied, route, matchVars>>

(***************************************************************************)
(* AuthController.register and AuthController.deleteAccount                *)
(***************************************************************************)
\* the lookup of a user with the email of the request
RegisterLookup(i) ==
  /\ areq[i].pc = "idle"
  /\ \E u \in UserIds :
       LET r == [areq[i] EXCEPT !.handler = "register", !.user = u]
       IN  areq' = [areq EXCEPT ![i] =
             IF u \in users THEN [r EXCEPT !.pc = "done", !.err = ValidationError,
                                           !.existing = TRUE]
             ELSE [r EXCEPT !.pc = "register_create"]]
  /\ UNCHANGED <<projects, notifications, clock, users, applications, applied, route,
                 matchVars>>

\* prisma.user.create, the verification email, and res.status(201).json
RegisterCreate(i) ==
  /\ areq[i].pc = "register_create"
  /\ IF areq[i].user \in users
     THEN /\ areq' = AFail(i, InternalError)
          /\ UNCHANGED users
     ELSE /\ users' = users \cup {areq[i].user}
          /\ areq' = [areq EXCEPT ![i] =
                        [areq[i] EXCEPT !.pc = "done", !.changed = TRUE, !.resStatus = 201]]
  /\ UNCHANGED <<projects, notifications, clock, applications, applied, route, matchVars>>

\* the lookup of the user of the token and bcrypt.compare with its password
DeleteAccountLookup(i) ==
  /\ areq[i].pc = "idle"
  /\ \E u \in UserIds, pw \in BOOLEAN :
       LET r == [areq[i] EXCEPT !.handler = "deleteAccount", !.user = u, !.password = pw]
       IN  areq' = [areq EXCEPT ![i] =
             IF u \notin users THEN [r EXCEPT !.pc = "done", !.err = InternalError]
             ELSE IF ~pw THEN [r EXCEPT !.pc = "done", !.err = ValidationError]
                  ELSE [r EXCEPT !.pc = "account_delete",
                                 !.existing = UserReferenced(applications, u)]]
  /\ UNCHANGED <<projects, notifications, clock, users, applications, applied, route,
                 matchVars>>

\* prisma.user.delete and res.json
DeleteAccountDelete(i) ==
  /\ areq[i].pc = "account_delete"
  /\ LET u == areq[i].user
     IN  IF u \notin users \/ UserReferenced(applications, u)
         THEN /\ areq' = AFail(i, InternalError)
              /\ UNCHANGED users
         ELSE /\ users' = users \ {u}
              /\ areq' = [areq EXCEPT ![i] =
                            [areq[i] EXCEPT !.pc = "done", !.changed = TRUE,
                                            !.resStatus = 200]]
  /\ UNCHANGED <<projects, notifications, clock, applications, applied, route, matchVars>>

(***************************************************************************)
(* ProjectController.updateProject and ProjectController.deleteProject     *)
(***************************************************************************)
\* the values of the status column
ProjectStatuses == {"ACTIVE", "CLOSED", "CANCELLED"}

\* the values of updates.status in the body of a request
UpdateStatuses == {"undefined", "CLOSED", "CANCELLED", "ARCHIVED"}

StoreAcceptsAnyStatus(st) == TRUE

\* the store refuses a value that is not of the enumeration of the column
StoreAcceptsStatus(st) == st \in ProjectStatuses

CanModifyAnyone(creatorId, u) == TRUE

\* existingProject.creatorId !== req.user.id && req.user.role !== 'ADMIN'
CanModify(creatorId, u) == creatorId = u \/ Role[u] = "ADMIN"

\* the lookup of the project and the check of the requester
UpdateProjectLookup(i) ==
  /\ areq[i].pc = "idle"
  /\ \E u \in ProjectRequesters, p \in ProjectIds, st \in UpdateStatuses :
       LET r == [areq[i] EXCEPT !.handler = "updateProject", !.user = u, !.projectId = p,
                                !.newStatus = st, !.snap = Snapshot(p)]
       IN  areq' = [areq EXCEPT ![i] =
             IF ~ProjectExists(p) THEN [r EXCEPT !.pc = "done", !.err = NotFound]
             ELSE IF ~CanModify(projects[p].creatorId, u)
                  THEN [r EXCEPT !.pc = "done", !.err = Forbidden]
                  ELSE [r EXCEPT !.pc = "update_write"]]
  /\ UNCHANGED <<projects, notifications, clock, users, applications, applied, route,
                 matchVars>>

\* prisma.project.update with the allowed fields of the body, and res.json
UpdateProjectUpdate(i) ==
  /\ areq[i].pc = "update_write"
  /\ LET p == areq[i].projectId
         st == areq[i].newStatus
     IN  IF ~ProjectExists(p) \/ (st # "undefined" /\ ~StoreAcceptsStatus(st))
         THEN /\ areq' = AFail(i, InternalError)
              /\ UNCHANGED projects
         ELSE /\ projects' = IF st = "undefined" THEN projects
                             ELSE [projects EXCEPT ![p].status = st]
              /\ areq' = [areq EXCEPT ![i] =
                            [areq[i] EXCEPT !.pc = "done", !.changed = TRUE,
                                            !.resStatus = 200]]
  /\ UNCHANGED <<notifications, clock, users, applications, applied, route, matchVars>>

\* the lookup of the project and the check of the requester
DeleteProjectLookup(i) ==
  /\ areq[i].pc = "idle"
  /\ \E u \in ProjectRequesters, p \in ProjectIds :
       LET r == [areq[i] EXCEPT !.handler = "deleteProject", !.user = u, !.projectId = p,
                                !.snap = Snapshot(p)]
       IN  areq' = [areq EXCEPT ![i] =
             IF ~ProjectExists(p) THEN [r EXCEPT !.pc = "done", !.err = NotFound]
             ELSE IF ~CanModify(projects[p].creatorId, u)
                  THEN [r EXCEPT !.pc = "done", !.err = Forbidden]
                  ELSE [r EXCEPT !.pc = "delete_find"]]
  /\ UNCHANGED <<projects, notifications, clock, users, applications, applied, route,
                 matchVars>>

\* prisma.application.findMany({ where: { projectId } })
DeleteProjectFind(i) ==
  /\ areq[i].pc = "delete_find"
  /\ areq' = [areq EXCEPT ![i] =
                [areq[i] EXCEPT !.pc = "delete_write",
                                !.targets = ApplicantsOf(applications, areq[i].projectId)]]
  /\ UNCHANGED <<projects, notifications, clock, users, applications, applied, route,
                 matchVars>>

\* prisma.project.delete
DeleteProjectDelete(i) ==
  /\ areq[i].pc = "delete_write"
  /\ LET p == areq[i].projectId
     IN  IF ~ProjectExists(p) \/ ProjectReferenced(applications, p)
         THEN /\ areq' = AFail(i, InternalError)
              /\ UNCHANGED <<projects, applied>>
         ELSE /\ projects' = [projects EXCEPT ![p] = DeletedProject]
              /\ applied' = [applied EXCEPT ![p] = 0]
              /\ areq' = [areq EXCEPT ![i] =
                            [areq[i] EXCEPT !.pc = "delete_notify", !.changed = TRUE]]
  /\ UNCHANGED <<notifications, clock, users, applications, route, matchVars>>

\* the PROJECT_DELETED notifications of the applicants found, and res.json
DeleteProjectNotify(i) ==
  /\ areq[i].pc = "delete_notify"
  /\ \E sentCount \in 0 .. Len(areq[i].targets) :
       /\ notifications' = notifications \o
            [k \in 1 .. sentCount |->
               Notification(areq[i].targets[k], "PROJECT_DELETED", areq[i].projectId)]
       /\ areq' = IF sentCount < Len(areq[i].targets) THEN AFail(i, InternalError)
                  ELSE [areq EXCEPT ![i] =
                          [areq[i] EXCEPT !.pc = "done", !.resStatus = 200]]
  /\ UNCHANGED <<projects, clock, users, applications, applied, route, matchVars>>

NextProjects ==
  \/ CreateProjectCreate("r1")
  \/ CreateProjectUpload("r1")
  \/ CreateProjectNotify("r1")
  \/ \E i \in AReqIds :
       \/ UpdateProjectLookup(i)
       \/ UpdateProjectUpdate(i)
       \/ DeleteProjectLookup(i)
       \/ DeleteProjectFind(i)
       \/ DeleteProjectDelete(i)
       \/ DeleteProjectNotify(i)

SpecProjects == InitApps /\ [][NextProjects]_vars

Unauthorized(r) ==
  /\ r.handler \in {"updateProject", "deleteProject"}
  /\ r.snap.found
  /\ r.snap.creatorId # r.user /\ Role[r.user] # "ADMIN"

\* C14: a step of updateProject or deleteProject changes a project only for
\* its creator or an ADMIN; any other requester gets 403 and its request
\* changes no project, no application and sends no notification.
ProjectModifiedByCreatorOrAdmin ==
  /\ [](\A i \in AReqIds :
          Unauthorized(areq[i]) => areq[i].pc = "done" /\ areq[i].err = Forbidden
                                     /\ areq[i].resStatus = 0 /\ ~areq[i].changed)
  /\ [][\A i \in AReqIds :
          (areq'[i] # areq[i] /\ areq'[i].handler \in {"updateProject", "deleteProject"})
            => /\ notifications' # notifications \/ projects' # projects
                    => ~Unauthorized(areq'[i])
               /\ Unauthorized(areq'[i])
                    => UNCHANGED <<projects, applications, applied, notifications>>]_vars

\* a requester that is neither creator nor ADMIN got 403 from deleteProject, and
\* the creator has deleted another project
ProjectModifiedByCreatorOrAdminWitness ==
  /\ \E i \in AReqIds :
       /\ Unauthorized(areq[i]) /\ areq[i].handler = "deleteProject"
       /\ areq[i].err = Forbidden /\ ProjectExists(areq[i].projectId)
  /\ \E i \in AReqIds :
       /\ areq[i].handler = "deleteProject" /\ areq[i].changed
       /\ areq[i].snap.creatorId = areq[i].user

(***************************************************************************)
(* ProjectController.respondToApplication                                  *)
(***************************************************************************)
\* the values of status in the body of a request
ResponseStatuses == {"ACCEPTED", "REJECTED"}

CanRespondAnyone(creatorId, u) == TRUE

\* application.project.creatorId !== req.user.id && req.user.role !== 'ADMIN'
CanRespond(creatorId, u) == creatorId = u \/ Role[u] = "ADMIN"

\* the lookup of the application with its project, and the check of the requester
RespondLookup(i) ==
  /\ areq[i].pc = "idle"
  /\ \E u \in ProjectRequesters, id \in KnownApplicationIds, st \in ResponseStatuses :
       LET found == ApplicationById(applications, id)
           a == CHOOSE x \in found : TRUE
           r == [areq[i] EXCEPT !.handler = "respondToApplication", !.user = u,
                                !.appId = id, !.newStatus = st]
       IN  areq' = [areq EXCEPT ![i] =
             IF found = {} THEN [r EXCEPT !.pc = "done", !.err = NotFound]
             ELSE IF ~CanRespond(projects[a.projectId].creatorId, u)
                  THEN [r EXCEPT !.pc = "done", !.err = Forbidden,
                                 !.snap = SnapshotOfApplication(a)]
                  ELSE [r EXCEPT !.pc = "respond_write", !.projectId = a.projectId,
                                 !.snap = SnapshotOfApplication(a)]]
  /\ UNCHANGED <<projects, notifications, clock, users, applications, applied, route,
                 matchVars>>

\* prisma.application.update({ data: { status } })
RespondUpdate(i) ==
  /\ areq[i].pc = "respond_write"
  /\ LET found == ApplicationById(applications, areq[i].appId)
     IN  IF found = {}
         THEN /\ areq' = AFail(i, InternalError)
              /\ UNCHANGED applications
         ELSE /\ applications' =
                   {IF a \in found THEN [a EXCEPT !.status = areq[i].newStatus] ELSE a :
                      a \in applications}
              /\ areq' = [areq EXCEPT ![i] =
                            [areq[i] EXCEPT !.pc = "respond_notify", !.changed = TRUE]]
  /\ UNCHANGED <<projects, notifications, clock, users, applied, route, matchVars>>

\* sendNotification to the volunteer and res.json
RespondNotify(i) ==
  /\ areq[i].pc = "respond_notify"
  /\ \/ /\ notifications' = Append(notifications,
             Notification(areq[i].snap.volunteerId, "APPLICATION_UPDATE",
                          areq[i].projectId))
        /\ areq' = [areq EXCEPT ![i] = [areq[i] EXCEPT !.pc = "done", !.resStatus = 200]]
     \/ /\ areq' = AFail(i, InternalError)
        /\ UNCHANGED notifications
  /\ UNCHANGED <<projects, clock, users, applications, applied, route, matchVars>>

NextApply ==
  \E i \in AReqIds :
    \/ ApplyLookup(i)
    \/ ApplyCheck(i)
    \/ ApplyCreate(i)
    \/ ApplyCount(i)
    \/ ApplyNotify(i)
    \/ WithdrawLookup(i)
    \/ WithdrawDelete(i)
    \/ WithdrawCount(i)
    \/ WithdrawNotify(i)
    \/ RespondLookup(i)
    \/ RespondUpdate(i)
    \/ RespondNotify(i)
    \/ UpdateProjectLookup(i)
    \/ UpdateProjectUpdate(i)
    \/ DeleteProjectLookup(i)
    \/ DeleteProjectFind(i)
    \/ DeleteProjectDelete(i)
    \/ DeleteProjectNotify(i)

SpecApply == InitApps /\ [][NextApply]_vars

\* C15: there is at most one application per (volunteer, project) pair, and an
\* applyForProject whose lookup finds one ends in 400 and creates nothing.
OneApplicationPerPair ==
  /\ \A a, b \in applications :
       (a.volunteerId = b.volunteerId /\ a.projectId = b.projectId) => a = b
  /\ \A i \in AReqIds :
       (areq[i].handler = "applyForProject" /\ areq[i].existing)
         => areq[i].pc = "done" /\ areq[i].err = ValidationError /\ areq[i].created = 0

\* both requests are applyForProject of the same volunteer for the same project;
\* one has created the application and the other was answered 400 by its lookup
OneApplicationPerPairWitness ==
  /\ areq["a1"].handler = "applyForProject" /\ areq["a2"].handler = "applyForProject"
  /\ areq["a1"].user = areq["a2"].user /\ areq["a1"].projectId = areq["a2"].projectId
  /\ areq["a1"].created # 0
  /\ areq["a2"].existing /\ areq["a2"].err = ValidationError

\* C16: every application is created for a project whose status is ACTIVE at
\* the step that creates the record, and an applyForProject whose lookup finds
\* a project that is not ACTIVE ends in 400 and creates nothing.
NoApplicationForInactiveProject ==
  /\ [](\A i \in AReqIds :
          (areq[i].handler = "applyForProject" /\ areq[i].snap.found
             /\ areq[i].snap.status # "ACTIVE" /\ Role[areq[i].user] = "VOLUNTEER")
            => areq[i].pc = "done" /\ areq[i].err = ValidationError
                 /\ areq[i].created = 0)
  /\ [][\A a \in applications' \ applications :
          projects[a.projectId].status = "ACTIVE"]_vars

\* C17: no step of withdrawApplication deletes an application whose status is
\* ACCEPTED, and a withdrawal whose lookup finds the application ACCEPTED ends
\* in 400 and changes neither the applications nor volunteersApplied.
AcceptedApplicationNeverWithdrawn ==
  /\ [](\A i \in AReqIds :
          (areq[i].handler = "withdrawApplication" /\ areq[i].snap.found
             /\ areq[i].snap.status = "ACCEPTED" /\ areq[i].snap.volunteerId = areq[i].user)
            => areq[i].pc = "done" /\ areq[i].err = ValidationError
                 /\ ~areq[i].changed /\ ~areq[i].counted)
  /\ [][\A a \in applications :
          (a.status = "ACCEPTED" /\ \A b \in applications' : b.id # a.id)
            => \A i \in AReqIds :
                 ~(areq[i].handler = "withdrawApplication" /\ areq'[i] # areq[i])]_vars

\* the request is a respondToApplication of a requester that is neither the
\* creator of the project of the application found nor an ADMIN
ForeignResponder(r) ==
  /\ r.handler = "respondToApplication" /\ r.snap.found
  /\ r.snap.creatorId # r.user /\ Role[r.user] # "ADMIN"

\* the request is a withdrawApplication of a requester that is not the volunteer
\* of the application found
ForeignWithdrawer(r) ==
  /\ r.handler = "withdrawApplication"
  /\ Role[r.user] # "VOLUNTEER" \/ (r.snap.found /\ r.snap.volunteerId # r.user)

\* C18: a step of respondToApplication changes an application only for the
\* creator of its project or an ADMIN, a step of withdrawApplication deletes an
\* application only for its volunteer; any other requester gets 403 and its
\* request leaves the applications unchanged.
ApplicationChangedByAuthorizedOnly ==
  /\ [](\A i \in AReqIds :
          (ForeignResponder(areq[i]) \/ ForeignWithdrawer(areq[i]))
            => areq[i].pc = "done" /\ areq[i].err = Forbidden
                 /\ areq[i].resStatus = 0 /\ ~areq[i].changed)
  /\ [][\A i \in AReqIds :
          (areq'[i] # areq[i] /\ applications' # applications)
            => /\ areq'[i].handler = "respondToApplication"
                    => \A a \in applications \ applications' :
                         \/ projects[a.projectId].creatorId = areq'[i].user
                         \/ Role[areq'[i].user] = "ADMIN"
               /\ areq'[i].handler = "withdrawApplication"
                    => \A a \in applications \ applications' :
                         a.volunteerId = areq'[i].user]_vars

\* a volunteer was refused the withdrawal of the application of another
\* volunteer, and the creator of another project was refused a response, while
\* the application is still stored
ApplicationChangedByAuthorizedOnlyWitness ==
  /\ \E i \in AReqIds :
       /\ areq[i].handler = "withdrawApplication" /\ Role[areq[i].user] = "VOLUNTEER"
       /\ areq[i].snap.found /\ areq[i].snap.volunteerId # areq[i].user
       /\ areq[i].err = Forbidden
  /\ \E i \in AReqIds : ForeignResponder(areq[i]) /\ areq[i].err = Forbidden
  /\ applications # {}

\* no applyForProject and no withdrawApplication is between its first step and
\* its end
Quiescent ==
  \A i \in AReqIds :
    areq[i].handler \in {"applyForProject", "withdrawApplication"} => areq[i].pc = "done"

\* C19: when no applyForProject or withdrawApplication is in progress, the
\* volunteersApplied of every stored project is the number of the applications
\* that reference it, and is not negative.
CounterMatchesApplications ==
  Quiescent =>
    \A p \in ProjectIds :
      ProjectExists(p) =>
        /\ applied[p] = Cardinality({a \in applications : a.projectId = p})
        /\ applied[p] >= 0

\* C20: an applyForProject that ended in an error has created no application
\* and has not changed volunteersApplied.
ApplyAllOrNothing ==
  \A i \in AReqIds :
    (areq[i].handler = "applyForProject" /\ areq[i].pc = "done" /\ areq[i].err # 0)
      => /\ areq[i].created = 0
         /\ ~areq[i].counted
         /\ \A a \in applications : a.id # areq[i].created

NextAccounts ==
  \E i \in AReqIds :
    \/ RegisterLookup(i)
    \/ RegisterCreate(i)
    \/ DeleteAccountLookup(i)
    \/ DeleteAccountDelete(i)
    \/ ApplyLookup(i)
    \/ ApplyCheck(i)
    \/ ApplyCreate(i)
    \/ ApplyCount(i)
    \/ ApplyNotify(i)
    \/ WithdrawLookup(i)
    \/ WithdrawDelete(i)
    \/ WithdrawCount(i)
    \/ WithdrawNotify(i)

SpecAccounts == InitApps /\ [][NextAccounts]_vars

\* C11: no application references a user that is not stored, and a deleteAccount
\* of a volunteer that applications reference ends in an error and removes
\* nothing.
VolunteerKeptWhileReferenced ==
  /\ \A a \in applications : a.volunteerId \in users
  /\ \A i \in AReqIds :
       (areq[i].handler = "deleteAccount" /\ areq[i].pc = "done"
          /\ \E a \in applications : a.volunteerId = areq[i].user)
         => areq[i].user \in users

\* a deleteAccount with the right password, of a volunteer that an application
\* references, has ended in an error
VolunteerKeptWhileReferencedWitness ==
  \E i \in AReqIds :
    /\ areq[i].handler = "deleteAccount" /\ areq[i].pc = "done"
    /\ areq[i].password /\ areq[i].err = InternalError
    /\ areq[i].user \in users
    /\ \E a \in applications : a.volunteerId = areq[i].user

\* C13: a DELETE of /applications/:applicationId/withdraw is given to
\* withdrawApplication and to no other handler.
WithdrawRouteDispatched ==
  (/\ route.pc = "dispatched" /\ route.method = "DELETE"
   /\ Len(route.path) = 3 /\ route.path[1] = "applications" /\ route.path[3] = "withdraw")
    => route.handler = "withdrawApplication"

====
